---- MODULE Spec2Model ----
(***************************************************************************)
(* Model of pycomm (src/pycomm.py): the FileLister directory browser and   *)
(* the MenuBar overlays.  One action per input handler / button callback.  *)
(*                                                                         *)
(* File names are sequences of ASCII codes, paths are sequences of names   *)
(* (the root "/" is the empty sequence), so that str.lower, the stable     *)
(* sort, os.path.join and os.path.dirname are computed, not assumed.       *)
(***************************************************************************)
EXTENDS Integers, Sequences, FiniteSets, TLC

VARIABLES
    current_dir,     \* FileLister.current_dir
    home,            \* os.path.expanduser("~"), fixed by the environment
    directories,     \* FileLister.directories
    files,           \* FileLister.files
    lists_defined,   \* TRUE once the attributes directories/files exist
    all_items,       \* FileLister.all_items
    item_widgets,    \* FileLister.item_widgets (the rows of the list box)
    item_info,       \* FileLister.item_info (the entries)
    selected_index,  \* FileLister.selected_index
    metadata_text,   \* FileLister.metadata_text
    listbox_focus,   \* focus position of FileLister.listbox
    body,            \* FileLister.body
    widget,          \* MainLoop.widget (what is displayed)
    active_menu,     \* MenuBar.active_menu
    proc,            \* "running" | "exited" (ExitMainLoop) | "crashed"
    event,           \* history: the last handler that ran and its input
    pre              \* history: the state the last handler started from

vars == <<current_dir, home, directories, files, lists_defined, all_items,
          item_widgets, item_info, selected_index, metadata_text,
          listbox_focus, body, widget, active_menu, proc, event, pre>>

-----------------------------------------------------------------------------
(* Names                                                                   *)

nDotDot == <<46, 46>>       \* ".."
nHome   == <<104>>          \* "h"
nTmp    == <<116>>          \* "t"
nUser   == <<117>>          \* "u"
nA      == <<65>>           \* "A"
nb      == <<98>>           \* "b"
nz      == <<122>>          \* "z"
na      == <<97>>           \* "a"
nZ      == <<90>>           \* "Z"
nLnk    == <<108>>          \* "l", a broken symbolic link
nf      == <<102>>          \* "f"

Slash == 47                 \* "/"

-----------------------------------------------------------------------------
(* The file system (static during a session)                               *)

pRoot == << >>
pHome == <<nHome>>
pUser == <<nHome, nUser>>
pA    == <<nHome, nUser, nA>>
pB    == <<nHome, nUser, nb>>
pTmp  == <<nTmp>>

\* Every node of the tree: kind "dir" | "file" | "other" (a broken link,
\* for which os.path.exists, isdir and isfile are all False); for a
\* directory, whether os.listdir succeeds and the order it returns.
Nodes ==
    { [path |-> pRoot, kind |-> "dir", listable |-> TRUE,
          names |-> <<nTmp, nHome>>],
      [path |-> pHome, kind |-> "dir", listable |-> TRUE,
          names |-> <<nUser>>],
      [path |-> pUser, kind |-> "dir", listable |-> TRUE,
          names |-> <<nb, nz, nLnk, nA, nZ, na>>],
      [path |-> pA, kind |-> "dir", listable |-> TRUE, names |-> << >>],
      [path |-> pB, kind |-> "dir", listable |-> FALSE, names |-> << >>],
      [path |-> pTmp, kind |-> "dir", listable |-> TRUE, names |-> <<nf>>],
      [path |-> <<nTmp, nf>>, kind |-> "file", listable |-> FALSE,
          names |-> << >>],
      [path |-> <<nHome, nUser, nz>>, kind |-> "file", listable |-> FALSE,
          names |-> << >>],
      [path |-> <<nHome, nUser, nZ>>, kind |-> "file", listable |-> FALSE,
          names |-> << >>],
      [path |-> <<nHome, nUser, na>>, kind |-> "file", listable |-> FALSE,
          names |-> << >>],
      [path |-> <<nHome, nUser, nLnk>>, kind |-> "other", listable |-> FALSE,
          names |-> << >>] }

NodePaths == { n.path : n \in Nodes }

Node(p) == CHOOSE n \in Nodes : n.path = p

DirPaths == { n.path : n \in { m \in Nodes : m.kind = "dir" } }

isdir(p) == p \in NodePaths /\ Node(p).kind = "dir"

isfile(p) == p \in NodePaths /\ Node(p).kind = "file"

exists(p) == p \in NodePaths /\ Node(p).kind \in {"dir", "file"}

\* os.listdir succeeds
listdir_ok(p) == isdir(p) /\ Node(p).listable

listdir(p) == Node(p).names

join(dir, name) == Append(dir, name)

\* os.path.dirname: the parent; dirname("/") is "/"
dirname(p) == IF Len(p) = 0 THEN p ELSE SubSeq(p, 1, Len(p) - 1)

\* truth value of a path string: the string of an absolute path is never
\* empty (the root is "/")
truthy(p) == Len(p) >= 0

\* os.path.abspath of an absolute path without "." or ".." components
abspath(p) == p

-----------------------------------------------------------------------------
(* str.lower and the order of strings                                      *)

lower_char(c) == IF c >= 65 /\ c <= 90 THEN c + 32 ELSE c

lower(s) == [i \in 1..Len(s) |-> lower_char(s[i])]

RECURSIVE str_less(_, _)
str_less(s, t) ==
    IF Len(t) = 0 THEN FALSE
    ELSE IF Len(s) = 0 THEN TRUE
    ELSE IF s[1] < t[1] THEN TRUE
    ELSE IF s[1] > t[1] THEN FALSE
    ELSE str_less(Tail(s), Tail(t))

\* insert x after every element whose key is not greater (stable)
RECURSIVE insert_by_lower(_, _)
insert_by_lower(x, sorted) ==
    IF Len(sorted) = 0 THEN <<x>>
    ELSE IF str_less(lower(x), lower(sorted[1])) THEN <<x>> \o sorted
    ELSE <<sorted[1]>> \o insert_by_lower(x, Tail(sorted))

\* a sort that is left out: the listing order is kept
sort_lower_left_out(seq) == seq

\* list.sort(key=str.lower)
RECURSIVE sort_lower(_)
sort_lower(seq) ==
    IF Len(seq) = 0 THEN << >>
    ELSE insert_by_lower(seq[Len(seq)], sort_lower(SubSeq(seq, 1, Len(seq) - 1)))

-----------------------------------------------------------------------------
(* The program state as one record, so that methods compose               *)

Cur ==
    [current_dir |-> current_dir, home |-> home, directories |-> directories,
     files |-> files, lists_defined |-> lists_defined,
     all_items |-> all_items, item_widgets |-> item_widgets,
     item_info |-> item_info, selected_index |-> selected_index,
     metadata_text |-> metadata_text, listbox_focus |-> listbox_focus,
     body |-> body, widget |-> widget, active_menu |-> active_menu,
     proc |-> proc]

\* MenuBar.active_menu = None
None == [type |-> "none"]

basename(p) == p[Len(p)]

\* the (name, mod_time, size_label, is_dir) tuple without the two display
\* strings taken from os.stat
get_item_info(item_path, is_dir) ==
    IF ~exists(item_path)
    THEN [name |-> basename(item_path), is_dir |-> is_dir]
    ELSE [name |-> IF is_dir THEN Append(basename(item_path), Slash)
                   ELSE basename(item_path),
          is_dir |-> is_dir]

get_file_metadata(path) ==
    IF ~exists(path) THEN [tag |-> "Path not found.", path |-> path]
    ELSE IF isfile(path) THEN [tag |-> "File", path |-> path]
    ELSE IF isdir(path) THEN [tag |-> "Directory", path |-> path]
    ELSE [tag |-> "Unknown", path |-> path]

row(kind, text) == [kind |-> kind, text |-> text, attr |-> "normal"]

\* the list box and the metadata panel built at the end of a refresh
new_panels(T) ==
    [T EXCEPT !.listbox_focus = IF Len(T.item_widgets) > 0 THEN 0 ELSE -1,
              !.metadata_text = [tag |-> "Select an item to view details.",
                                 path |-> << >>]]

parent_widget(S) ==
    IF S.current_dir /= S.home THEN <<row("parent", nDotDot)>> ELSE << >>

\* the ".." entry added in every directory
parent_info_everywhere(S) == <<[name |-> nDotDot, is_dir |-> TRUE]>>

parent_info(S) ==
    IF S.current_dir /= S.home
    THEN <<[name |-> nDotDot, is_dir |-> TRUE]>> ELSE << >>

\* the try block once the directories dirs and the files fls are sorted
listing_done(S, dirs, fls) ==
    [S EXCEPT
        !.directories = dirs,
        !.files = fls,
        !.lists_defined = TRUE,
        !.all_items = dirs \o fls,
        !.selected_index =
            IF Len(dirs \o fls) > 0 \/ S.current_dir /= S.home THEN 1 ELSE 0,
        !.item_widgets =
            parent_widget(S)
            \o [i \in 1..Len(dirs) |-> row("dir", dirs[i])]
            \o [i \in 1..Len(fls) |-> row("file", fls[i])],
        !.item_info =
            parent_info(S)
            \o [i \in 1..Len(dirs) |->
                   get_item_info(join(S.current_dir, dirs[i]), TRUE)]
            \o [i \in 1..Len(fls) |->
                   get_item_info(join(S.current_dir, fls[i]), FALSE)]]

\* the except block
listing_failed(S) ==
    [S EXCEPT
        !.all_items = << >>,
        !.selected_index = -1,
        !.item_info = << >>,
        !.item_widgets =
            <<[kind |-> "error", text |-> S.current_dir, attr |-> "error"]>>]

\* a listing that fails as a whole when one child is neither a directory
\* nor a file
refresh_directory_listing_aborts(S) ==
    IF /\ listdir_ok(S.current_dir)
       /\ \A i \in 1..Len(listdir(S.current_dir)) :
              \/ isdir(join(S.current_dir, listdir(S.current_dir)[i]))
              \/ isfile(join(S.current_dir, listdir(S.current_dir)[i]))
    THEN new_panels(listing_done(S,
             sort_lower(SelectSeq(listdir(S.current_dir),
                            LAMBDA n : isdir(join(S.current_dir, n)))),
             sort_lower(SelectSeq(listdir(S.current_dir),
                            LAMBDA n : isfile(join(S.current_dir, n))))))
    ELSE new_panels(listing_failed(S))

refresh_directory_listing(S) ==
    IF listdir_ok(S.current_dir)
    THEN new_panels(listing_done(S,
             sort_lower(SelectSeq(listdir(S.current_dir),
                            LAMBDA n : isdir(join(S.current_dir, n)))),
             sort_lower(SelectSeq(listdir(S.current_dir),
                            LAMBDA n : isfile(join(S.current_dir, n))))))
    ELSE new_panels(listing_failed(S))

\* the Frame built for a directory
Frame(dir) == [type |-> "body", dir |-> dir]

set_body(T) == [T EXCEPT !.body = Frame(T.current_dir)]

build_ui(S) == set_body(refresh_directory_listing(S))

_update_selection(S) ==
    LET sel == S.selected_index
        at_home == S.current_dir = S.home
        item_index == IF at_home THEN sel ELSE sel - 1
    IN  IF 0 <= sel /\ sel < Len(S.item_widgets)
        THEN [S EXCEPT
                 !.item_widgets =
                     [i \in 1..Len(S.item_widgets) |->
                         [S.item_widgets[i] EXCEPT
                             !.attr = IF i - 1 = sel THEN "selected"
                                      ELSE "normal"]],
                 !.metadata_text =
                     IF ~at_home /\ sel = 0
                     THEN [tag |-> "Parent Directory",
                           path |-> IF truthy(dirname(S.current_dir))
                                    THEN dirname(S.current_dir)
                                    ELSE S.current_dir]
                     ELSE IF 0 <= item_index /\ item_index < Len(S.all_items)
                     THEN get_file_metadata(
                              join(S.current_dir, S.all_items[item_index + 1]))
                     ELSE [tag |-> "No item selected", path |-> << >>],
                 !.listbox_focus = sel]
        ELSE S

-----------------------------------------------------------------------------
(* MenuBar                                                                 *)

\* the action tags of the buttons of MENU_ITEMS[0], the File menu
FileMenuActions == <<"open", "save", "go_up", "close_menu", "exit">>

is_active(S) == S.active_menu.type /= "none"

\* an uncaught exception leaves the handler and ends MainLoop.run
crash(S) == [S EXCEPT !.proc = "crashed"]

\* close_menu without the test of active_menu: None has no bottom_w
close_menu_unguarded(S) ==
    IF is_active(S)
    THEN [S EXCEPT !.widget = S.active_menu.bottom_w,
                   !.active_menu = None]
    ELSE crash(S)

\* close_menu that restores the widget and keeps active_menu
close_menu_keeps_active(S) ==
    IF is_active(S)
    THEN [S EXCEPT !.widget = S.active_menu.bottom_w]
    ELSE S

close_menu(S) ==
    IF is_active(S)
    THEN [S EXCEPT !.widget = S.active_menu.bottom_w,
                   !.active_menu = None]
    ELSE S

Overlay(kind, title, items, message, on_yes, on_no, bottom_w) ==
    [type |-> "overlay", kind |-> kind, title |-> title, items |-> items,
     message |-> message, on_yes |-> on_yes, on_no |-> on_no,
     bottom_w |-> bottom_w]

\* self.active_menu = ov; self.main_loop.widget = self.active_menu
set_overlay(T, ov) == [T EXCEPT !.active_menu = ov, !.widget = ov]

\* the overlay is built over the widget displayed after the close
open_over(T, kind, title, items, message, on_yes, on_no) ==
    set_overlay(T, Overlay(kind, title, items, message, on_yes, on_no,
                           T.widget))

\* show_submenu without the close of the active overlay
show_submenu_no_close(S, title, items) ==
    open_over(S, "menu", title, items, << >>, "none", "none")

show_submenu(S, title, items) ==
    open_over(IF is_active(S) THEN close_menu(S) ELSE S,
              "menu", title, items, << >>, "none", "none")

show_confirmation_dialog(S, title, message, on_yes, on_no) ==
    open_over(IF is_active(S) THEN close_menu(S) ELSE S,
              "dialog", title, << >>, message, on_yes, on_no)

show_exit_confirmation(S) ==
    show_confirmation_dialog(S, "Exit Confirmation",
        <<"Are you sure you want to exit?">>, "confirm_exit", "close_menu")

show_error_dialog(S, title, message) ==
    show_confirmation_dialog(S, title, message, "close_menu", "close_menu")

-----------------------------------------------------------------------------
(* FileLister                                                              *)

\* the except branch of change_directory is not modelled: every exception
\* of the listing is caught inside refresh_directory_listing
\* self.loop.widget = self.body
show_body(T) == [T EXCEPT !.widget = T.body]

change_directory(S, new_dir) ==
    _update_selection(
        show_body(build_ui([S EXCEPT !.current_dir = abspath(new_dir)])))

\* go_up_directory without the test of the home directory
go_up_directory_no_home_test(S) ==
    IF truthy(dirname(S.current_dir))
    THEN change_directory(S, dirname(S.current_dir))
    ELSE show_error_dialog(S, "Info", <<"Already at root directory">>)

go_up_directory(S) ==
    IF truthy(dirname(S.current_dir)) /\ S.current_dir /= S.home
    THEN change_directory(S, dirname(S.current_dir))
    ELSE show_error_dialog(S, "Info", <<"Already at root directory">>)

\* open_selected_item that enters a selected file as if it were a directory
open_selected_item_enters_file(S) ==
    LET sel == S.selected_index
        at_home == S.current_dir = S.home
        item_index == IF at_home THEN sel ELSE sel - 1
    IN  IF sel < 0 \/ sel >= Len(S.item_widgets) THEN S
        ELSE IF ~at_home /\ sel = 0 THEN go_up_directory(S)
        ELSE IF 0 <= item_index /\ ~S.lists_defined THEN crash(S)
        ELSE IF 0 <= item_index /\ item_index < Len(S.all_items)
        THEN change_directory(S,
                 join(S.current_dir, S.all_items[item_index + 1]))
        ELSE S

open_selected_item(S) ==
    LET sel == S.selected_index
        at_home == S.current_dir = S.home
        item_index == IF at_home THEN sel ELSE sel - 1
    IN  IF sel < 0 \/ sel >= Len(S.item_widgets) THEN S
        ELSE IF ~at_home /\ sel = 0 THEN go_up_directory(S)
        ELSE IF 0 <= item_index /\ ~S.lists_defined
        THEN crash(S)      \* len(self.directories): AttributeError
        ELSE IF 0 <= item_index /\ item_index < Len(S.directories)
        THEN change_directory(S,
                 join(S.current_dir, S.directories[item_index + 1]))
        ELSE IF item_index < Len(S.all_items)
        THEN IF ~S.lists_defined THEN crash(S)
             ELSE LET file_index == item_index - Len(S.directories)
                  IN  IF 0 <= file_index /\ file_index < Len(S.files)
                      THEN show_error_dialog(S, "Info",
                               <<"Selected file", S.files[file_index + 1]>>)
                      ELSE S
        ELSE S

Keys == {"q", "Q", "ctrl q", "f10", "esc", "up", "down", "enter",
         "backspace", "x"}

key_lower(key) == IF key = "Q" THEN "q" ELSE key

\* handle_input whose down key has no test of the last row
handle_input_down_unbounded(S, key) ==
    IF key_lower(key) = "q" \/ key = "ctrl q"
    THEN show_exit_confirmation(S)
    ELSE IF key = "f10" THEN show_submenu(S, "File", FileMenuActions)
    ELSE IF key = "esc"
    THEN IF is_active(S) THEN close_menu(S) ELSE S
    ELSE IF key = "up" /\ S.selected_index > 0
    THEN _update_selection([S EXCEPT !.selected_index = S.selected_index - 1])
    ELSE IF key = "down"
    THEN _update_selection([S EXCEPT !.selected_index = S.selected_index + 1])
    ELSE IF key = "enter" THEN open_selected_item(S)
    ELSE IF key = "backspace" THEN go_up_directory(S)
    ELSE S

handle_input(S, key) ==
    IF key_lower(key) = "q" \/ key = "ctrl q"
    THEN show_exit_confirmation(S)
    ELSE IF key = "f10" THEN show_submenu(S, "File", FileMenuActions)
    ELSE IF key = "esc"
    THEN IF is_active(S) THEN close_menu(S) ELSE S
    ELSE IF key = "up" /\ S.selected_index > 0
    THEN _update_selection([S EXCEPT !.selected_index = S.selected_index - 1])
    ELSE IF key = "down" /\ S.selected_index < Len(S.item_widgets) - 1
    THEN _update_selection([S EXCEPT !.selected_index = S.selected_index + 1])
    ELSE IF key = "enter" THEN open_selected_item(S)
    ELSE IF key = "backspace" THEN go_up_directory(S)
    ELSE S

on_submenu_click(S, action) ==
    IF action = "exit" THEN show_exit_confirmation(S)
    ELSE IF action = "close_menu" THEN close_menu(S)
    ELSE IF action = "go_up" THEN go_up_directory(S)
    ELSE IF action = "open" THEN S        \* print only
    ELSE close_menu(S)

\* urwid calls a click callback with the button as its argument
yes_click(S, on_yes) ==
    IF on_yes = "confirm_exit" THEN [S EXCEPT !.proc = "exited"]
    ELSE crash(S)     \* close_menu(button): TypeError, one argument too many

\* a No button that leaves the dialog open
on_no_click_keeps_open(S, on_no) == S

\* on_no_click(button): on_no() and then close_menu()
on_no_click(S, on_no) ==
    close_menu(IF on_no = "close_menu" THEN close_menu(S) ELSE S)

-----------------------------------------------------------------------------
(* The session                                                             *)

\* FileLister() in the working directory cwd with the home directory hm
Constructed(cwd, hm) ==
    [current_dir |-> cwd, home |-> hm, directories |-> << >>,
     files |-> << >>, lists_defined |-> FALSE, all_items |-> << >>,
     item_widgets |-> << >>, item_info |-> << >>, selected_index |-> -1,
     metadata_text |-> [tag |-> "", path |-> << >>],
     listbox_focus |-> -1, body |-> Frame(cwd),
     widget |-> [type |-> "SolidFill"], active_menu |-> None,
     proc |-> "running"]

\* build_ui in __init__, build_ui in run, then the body is displayed
Start(cwd, hm) ==
    _update_selection(show_body(build_ui(build_ui(Constructed(cwd, hm)))))

InitFrom(S) ==
    /\ current_dir = S.current_dir
    /\ home = S.home
    /\ directories = S.directories
    /\ files = S.files
    /\ lists_defined = S.lists_defined
    /\ all_items = S.all_items
    /\ item_widgets = S.item_widgets
    /\ item_info = S.item_info
    /\ selected_index = S.selected_index
    /\ metadata_text = S.metadata_text
    /\ listbox_focus = S.listbox_focus
    /\ body = S.body
    /\ widget = S.widget
    /\ active_menu = S.active_menu
    /\ proc = S.proc
    /\ event = [op |-> "start", arg |-> ""]
    /\ pre = S

Init == \E cwd \in DirPaths, hm \in DirPaths : InitFrom(Start(cwd, hm))

\* the handler op with input arg takes the program from Cur to S
Step(op, arg, S) ==
    /\ current_dir' = S.current_dir
    /\ home' = S.home
    /\ directories' = S.directories
    /\ files' = S.files
    /\ lists_defined' = S.lists_defined
    /\ all_items' = S.all_items
    /\ item_widgets' = S.item_widgets
    /\ item_info' = S.item_info
    /\ selected_index' = S.selected_index
    /\ metadata_text' = S.metadata_text
    /\ listbox_focus' = S.listbox_focus
    /\ body' = S.body
    /\ widget' = S.widget
    /\ active_menu' = S.active_menu
    /\ proc' = S.proc
    /\ event' = [op |-> op, arg |-> arg]
    /\ pre' = Cur

\* a key that reaches MainLoop.unhandled_input
KeyPress(key) ==
    /\ proc = "running"
    /\ Step("key", key, handle_input(Cur, key))

\* the Yes button of the displayed dialog is activated
ClickYes ==
    /\ proc = "running"
    /\ widget.type = "overlay"
    /\ widget.kind = "dialog"
    /\ Step("yes", "", yes_click(Cur, widget.on_yes))

\* the No button of the displayed dialog is activated
ClickNo ==
    /\ proc = "running"
    /\ widget.type = "overlay"
    /\ widget.kind = "dialog"
    /\ Step("no", "", on_no_click(Cur, widget.on_no))

\* a button of the displayed menu is activated
SubmenuClick(action) ==
    /\ proc = "running"
    /\ widget.type = "overlay"
    /\ widget.kind = "menu"
    /\ \E i \in 1..Len(widget.items) : widget.items[i] = action
    /\ Step("menu", action, on_submenu_click(Cur, action))

Next ==
    \/ \E key \in Keys : KeyPress(key)
    \/ ClickYes
    \/ ClickNo
    \/ \E action \in {"open", "save", "go_up", "close_menu", "exit"} :
           SubmenuClick(action)

Spec == Init /\ [][Next]_vars

-----------------------------------------------------------------------------
(* Claims                                                                  *)

\* the entries: the optional ".." row, the directories, the files
entries == item_info

\* C1: in every reachable state -1 <= selected_index < len(entries), and
\* selected_index = -1 exactly when entries is empty.
C1_SelectedIndexInBounds ==
    /\ -1 <= selected_index
    /\ selected_index < Len(entries)
    /\ (selected_index = -1 <=> Len(entries) = 0)


NavKeys == {"up", "down", "enter", "backspace"}

\* the directory model is what it was when the last handler started
ModelUnchanged ==
    /\ current_dir = pre.current_dir
    /\ entries = pre.item_info
    /\ selected_index = pre.selected_index

\* an overlay was active and displayed when the last handler started
OverlayWasShown ==
    /\ pre.active_menu.type = "overlay"
    /\ pre.widget = pre.active_menu

\* C2: change_directory is all-or-nothing: a handler never leaves
\* current_dir on a path that does not exist, is not a directory or cannot
\* be listed; when the target fails, current_dir keeps its value.
C2_ChangeDirectoryAllOrNothing ==
    current_dir /= pre.current_dir => listdir_ok(current_dir)

\* the first navigable entry of the entry list
FirstNavigable ==
    IF Len(entries) >= 2 /\ entries[1].name = nDotDot THEN 1
    ELSE IF Len(entries) > 0 THEN 0
    ELSE -1

\* C3: after the initial build and after every successful change of
\* directory, selected_index is the first navigable entry.
C3_SelectionResetToFirstNavigable ==
    (/\ event.op = "start" \/ current_dir /= pre.current_dir
     /\ listdir_ok(current_dir))
        => selected_index = FirstNavigable

\* the Yes button of the displayed exit confirmation was pressed
ConfirmedExit ==
    /\ event.op = "yes"
    /\ OverlayWasShown
    /\ pre.active_menu.kind = "dialog"
    /\ pre.active_menu.title = "Exit Confirmation"

\* C4: no failure ends the session: the process stops running only by Yes
\* in the exit confirmation dialog.
C4_OnlyConfirmedExitTerminates ==
    proc /= "running" => ConfirmedExit

\* the exit confirmation dialog is the active, displayed overlay
ExitDialogShown ==
    /\ active_menu.type = "overlay"
    /\ active_menu.kind = "dialog"
    /\ active_menu.title = "Exit Confirmation"
    /\ widget = active_menu

\* C5: the quit keys and the menu action exit only open the exit
\* confirmation dialog, and the process terminates only from a state in
\* which that dialog is the active overlay and its Yes button is pressed.
C5_ExitNeverImmediate ==
    /\ (\/ event.op = "key" /\ event.arg \in {"q", "Q", "ctrl q"}
        \/ event.op = "menu" /\ event.arg = "exit")
           => (proc = "running" /\ ExitDialogShown)
    /\ proc \in {"exited", "crashed"}
           => (/\ event.op = "yes"
               /\ pre.proc = "running"
               /\ pre.active_menu.type = "overlay"
               /\ pre.active_menu.title = "Exit Confirmation"
               /\ pre.widget = pre.active_menu)

\* C6: at most one overlay: the background of the active overlay, and of
\* the displayed widget, is never itself an overlay.
C6_OverlayDepthAtMostOne ==
    /\ active_menu.type = "overlay" => active_menu.bottom_w.type = "body"
    /\ widget.type = "overlay"
           => (widget.bottom_w.type = "body" /\ widget = active_menu)

\* an overlay has been opened while another one was displayed
C6_Witness ==
    /\ OverlayWasShown
    /\ pre.active_menu.kind = "dialog"
    /\ event.op = "key"
    /\ event.arg = "f10"
    /\ active_menu.type = "overlay"
    /\ active_menu.kind = "menu"
    /\ widget = active_menu

\* C7: while an overlay is active, a navigation key that reaches
\* handle_input leaves current_dir, entries and selected_index unchanged.
C7_OverlayCapturesNavigationKeys ==
    (event.op = "key" /\ event.arg \in NavKeys /\ OverlayWasShown)
        => ModelUnchanged

\* C8: F10 while an overlay is active is ignored: the active overlay is the
\* same after the key as before.
C8_OpenMenuKeyIgnoredUnderOverlay ==
    (event.op = "key" /\ event.arg = "f10"
     /\ pre.active_menu.type = "overlay")
        => (active_menu = pre.active_menu /\ widget = pre.widget)

\* C9: esc while an overlay is active closes it: afterwards no overlay is
\* active or displayed, the process runs, and current_dir, entries and
\* selected_index are unchanged.
C9_EscClosesOverlay ==
    (event.op = "key" /\ event.arg = "esc"
     /\ pre.active_menu.type = "overlay")
        => (/\ active_menu = None
            /\ widget.type = "body"
            /\ proc = "running"
            /\ ModelUnchanged)

\* esc has closed a displayed overlay
C9_Witness ==
    /\ event.op = "key"
    /\ event.arg = "esc"
    /\ OverlayWasShown
    /\ active_menu = None

\* C10: close_menu is idempotent: with no active overlay it changes
\* nothing, a second close changes nothing after a first, and the No
\* button, which closes twice, has the effect of one close.
C10_CloseIdempotent ==
    /\ ~is_active(Cur) => close_menu(Cur) = Cur
    /\ close_menu(close_menu(Cur)) = close_menu(Cur)
    /\ event.op = "no"
           => (/\ active_menu = None
               /\ widget = pre.active_menu.bottom_w
               /\ proc = "running"
               /\ Cur = [pre EXCEPT !.active_menu = None,
                                    !.widget = pre.active_menu.bottom_w])

\* the No button has run close_menu twice on a displayed dialog
C10_Witness ==
    /\ event.op = "no"
    /\ OverlayWasShown
    /\ pre.active_menu.on_no = "close_menu"
    /\ active_menu = None


\* the selection the last handler started from is an index of the entries
PreSelectionValid ==
    0 <= pre.selected_index /\ pre.selected_index < Len(pre.item_info)

\* C11: selection movement does not wrap: for a selection that is an index
\* of the entries, up at 0 leaves it at 0, down at the last index leaves it
\* unchanged, and otherwise up subtracts 1 and down adds 1.
C11_SelectionDoesNotWrap ==
    (event.op = "key" /\ PreSelectionValid)
        => /\ event.arg = "up"
                => selected_index =
                       IF pre.selected_index = 0 THEN 0
                       ELSE pre.selected_index - 1
           /\ event.arg = "down"
                => selected_index =
                       IF pre.selected_index = Len(pre.item_info) - 1
                       THEN pre.selected_index
                       ELSE pre.selected_index + 1
           /\ event.arg \in {"up", "down"}
                => (current_dir = pre.current_dir /\ entries = pre.item_info)

\* down was pressed on the last of several entries
C11_Witness ==
    /\ event.op = "key"
    /\ event.arg = "down"
    /\ Len(pre.item_info) >= 3
    /\ pre.selected_index = Len(pre.item_info) - 1
    /\ selected_index = pre.selected_index

\* the Info dialog of go_up_directory is the active, displayed overlay
BoundaryDialogShown ==
    /\ active_menu.type = "overlay"
    /\ active_menu.kind = "dialog"
    /\ active_menu.title = "Info"
    /\ active_menu.message = <<"Already at root directory">>
    /\ widget = active_menu

\* C12: go_up (backspace, or the menu action go_up) in the home directory
\* or in the file system root changes nothing of the directory model and
\* opens the informational dialog.
C12_GoUpAtBoundaryIsNoOp ==
    (/\ \/ event.op = "key" /\ event.arg = "backspace"
        \/ event.op = "menu" /\ event.arg = "go_up"
     /\ pre.current_dir = pre.home \/ pre.current_dir = pRoot)
        => (ModelUnchanged /\ BoundaryDialogShown)

\* C13: enter on the ".." entry of a directory that is neither the home
\* directory nor the root moves to the parent and selects index 1, or
\* index 0 when the parent's entry list has no second entry.
C13_EnterOnParentEntry ==
    (/\ event.op = "key"
     /\ event.arg = "enter"
     /\ pre.selected_index = 0
     /\ Len(pre.item_info) > 0
     /\ pre.item_info[1].name = nDotDot
     /\ pre.current_dir /= pre.home
     /\ pre.current_dir /= pRoot)
        => /\ current_dir = dirname(pre.current_dir)
           /\ selected_index = IF Len(entries) >= 2 THEN 1 ELSE 0

\* C14: enter on an entry that is a file opens the notice dialog for that
\* file and changes nothing of the directory model; enter with
\* selected_index = -1 changes nothing at all.
C14_EnterOnFileOnlyNotifies ==
    /\ (/\ event.op = "key"
        /\ event.arg = "enter"
        /\ PreSelectionValid
        /\ ~pre.item_info[pre.selected_index + 1].is_dir)
           => /\ ModelUnchanged
              /\ proc = "running"
              /\ active_menu.type = "overlay"
              /\ active_menu.kind = "dialog"
              /\ active_menu.title = "Info"
              /\ active_menu.message =
                     <<"Selected file",
                       pre.item_info[pre.selected_index + 1].name>>
              /\ widget = active_menu
    /\ (event.op = "key" /\ event.arg = "enter" /\ pre.selected_index = -1)
           => Cur = pre

\* enter was pressed on a file
C14_Witness ==
    /\ event.op = "key"
    /\ event.arg = "enter"
    /\ PreSelectionValid
    /\ ~pre.item_info[pre.selected_index + 1].is_dir
    /\ active_menu.type = "overlay"
    /\ active_menu.title = "Info"


\* the entry list starts with the ".." row
HasParentRow == Len(entries) > 0 /\ entries[1].name = nDotDot

\* the entries after the optional ".." row
Listed == IF HasParentRow THEN Tail(entries) ELSE entries

\* the file name of an entry (a directory is shown with a trailing "/")
EntryName(e) ==
    IF e.is_dir /\ Len(e.name) > 0 /\ e.name[Len(e.name)] = Slash
    THEN SubSeq(e.name, 1, Len(e.name) - 1)
    ELSE e.name

\* the position of a name in the order os.listdir returned
ListingPos(name) ==
    CHOOSE i \in 1..Len(listdir(current_dir)) :
        listdir(current_dir)[i] = name

\* C15: after the optional ".." row the entries are the directories and
\* then the files, each group in non-decreasing case-insensitive order of
\* name, names equal under case folding in the order of the listing.
C15_EntriesPartitionedAndSorted ==
    \A i \in 1..(Len(Listed) - 1) :
        /\ Listed[i].is_dir \/ ~Listed[i + 1].is_dir
        /\ Listed[i].is_dir = Listed[i + 1].is_dir
               => /\ ~str_less(lower(EntryName(Listed[i + 1])),
                               lower(EntryName(Listed[i])))
                  /\ lower(EntryName(Listed[i + 1])) =
                         lower(EntryName(Listed[i]))
                         => ListingPos(EntryName(Listed[i]))
                                < ListingPos(EntryName(Listed[i + 1]))

\* the listing b, z, l, A, Z, a of /h/u is shown as A/, b/, a, z, Z
C15_Witness ==
    /\ current_dir = pUser
    /\ listdir(current_dir) = <<nb, nz, nLnk, nA, nZ, na>>
    /\ [i \in 1..Len(Listed) |-> Listed[i].name]
           = <<Append(nA, Slash), Append(nb, Slash), na, nz, nZ>>

\* the number of ".." rows of the entry list
ParentRows == Cardinality({ i \in 1..Len(entries) : entries[i].name = nDotDot })

\* C16 as stated: after every rebuild the entry list has the ".." entry, at
\* index 0 and once, exactly when current_dir is not the home directory.
C16_ParentRowIffNotHome ==
    /\ HasParentRow <=> current_dir /= home
    /\ ParentRows <= 1

\* C16 amended: after a rebuild whose listing succeeded the entry list has
\* the ".." entry, at index 0 and once, exactly when current_dir is not the
\* home directory; after a failed listing the entry list is empty.
C16_ParentRowIffNotHomeWhenListed ==
    /\ listdir_ok(current_dir)
           => /\ HasParentRow <=> current_dir /= home
              /\ ParentRows = (IF current_dir /= home THEN 1 ELSE 0)
    /\ ~listdir_ok(current_dir) => Len(entries) = 0

\* a rebuild after a change of directory produced the ".." row
C16_Witness ==
    /\ current_dir /= pre.current_dir
    /\ current_dir /= home
    /\ listdir_ok(current_dir)
    /\ HasParentRow

\* the error row is what the list box shows
ErrorShown ==
    /\ Len(item_widgets) = 1
    /\ item_widgets[1].kind = "error"

\* C17: a failed listing gives entries = [] and selected_index = -1 with a
\* visible error message, the process keeps running, and the up and down
\* keys leave that degraded state as it is.
C17_FailedListingDegradesAndPersists ==
    /\ (/\ event.op = "start" \/ current_dir /= pre.current_dir
        /\ ~listdir_ok(current_dir))
           => /\ Len(entries) = 0
              /\ selected_index = -1
              /\ ErrorShown
              /\ proc = "running"
    /\ (/\ event.op = "key"
        /\ event.arg \in {"up", "down"}
        /\ ~listdir_ok(pre.current_dir)
        /\ Len(pre.item_info) = 0
        /\ pre.selected_index = -1)
           => /\ Len(entries) = 0
              /\ selected_index = -1
              /\ proc = "running"

\* the exit confirmation dialog was displayed when the last handler started
ExitDialogWasShown ==
    /\ OverlayWasShown
    /\ pre.active_menu.kind = "dialog"
    /\ pre.active_menu.title = "Exit Confirmation"

\* C18: a quit key opens the exit confirmation dialog and changes nothing
\* of the directory model; No in that dialog closes it, changes nothing of
\* the directory model, and the process keeps running.
C18_CancelExitRestores ==
    /\ (event.op = "key" /\ event.arg \in {"q", "Q", "ctrl q"})
           => (ModelUnchanged /\ ExitDialogShown /\ proc = "running")
    /\ (event.op = "no" /\ ExitDialogWasShown)
           => /\ ModelUnchanged
              /\ active_menu = None
              /\ widget.type = "body"
              /\ proc = "running"

\* No was pressed in the exit confirmation dialog
C18_Witness ==
    /\ event.op = "no"
    /\ ExitDialogWasShown
    /\ active_menu = None

\* the children of current_dir that are directories or files
Classified ==
    { listdir(current_dir)[i] : i \in
        { j \in 1..Len(listdir(current_dir)) :
            \/ isdir(join(current_dir, listdir(current_dir)[j]))
            \/ isfile(join(current_dir, listdir(current_dir)[j])) } }

\* C19: when the listing of current_dir succeeds, the listed entries are
\* exactly the children that are directories or files, each once: a child
\* that is neither is left out and the listing is not the error state.
C19_PerItemIsolation ==
    listdir_ok(current_dir)
        => /\ { EntryName(Listed[i]) : i \in 1..Len(Listed) } = Classified
           /\ Len(Listed) = Cardinality(Classified)
           /\ ~ErrorShown

\* the directory with the broken link is listed without it
C19_Witness ==
    /\ current_dir = pUser
    /\ \E i \in 1..Len(listdir(current_dir)) :
           listdir(current_dir)[i] = nLnk
    /\ ~exists(join(current_dir, nLnk))
    /\ Len(Listed) = 5
    /\ \A i \in 1..Len(Listed) : EntryName(Listed[i]) /= nLnk

\* C20: the displayed widget agrees with the overlay state: it is the
\* active overlay when active_menu is set, and otherwise the body built
\* for current_dir.  Stated for the states left by the start, by a button
\* and by a key that no widget of an overlay consumes.
C20_DisplayAgreesWithOverlay ==
    (event.op = "key" => event.arg \in {"backspace", "esc", "f10"})
        => /\ active_menu.type = "overlay" => widget = active_menu
           /\ active_menu.type = "none"
                  => (widget = body /\ widget.type = "body"
                      /\ widget.dir = current_dir)


\* path p is the directory d or lies below it
AtOrBelow(d, p) == Len(d) <= Len(p) /\ SubSeq(p, 1, Len(d)) = d

\* C21: boundary containment: a handler that starts with current_dir at or
\* below the home directory leaves it at or below the home directory, so a
\* session started there never leaves it; go_up does not move above home.
C21_BoundaryContainment ==
    AtOrBelow(pre.home, pre.current_dir) => AtOrBelow(home, current_dir)

\* go_up has moved from a directory below home up to home
C21_Witness ==
    /\ \/ event.op = "key" /\ event.arg \in {"backspace", "enter"}
       \/ event.op = "menu" /\ event.arg = "go_up"
    /\ AtOrBelow(pre.home, pre.current_dir)
    /\ pre.current_dir /= pre.home
    /\ current_dir = home
    /\ current_dir = dirname(pre.current_dir)

\* C22: enter acts on the entry shown at selected_index: when the selection
\* is not an index of the entries enter changes nothing, and when enter
\* changes current_dir it moves to the parent from the ".." entry or into
\* the directory named by the selected entry.
C22_EnterActsOnShownEntry ==
    (event.op = "key" /\ event.arg = "enter")
        => /\ ~PreSelectionValid => Cur = pre
           /\ (PreSelectionValid /\ current_dir /= pre.current_dir)
                  => \/ /\ pre.item_info[pre.selected_index + 1].name = nDotDot
                        /\ current_dir = dirname(pre.current_dir)
                     \/ /\ pre.item_info[pre.selected_index + 1].is_dir
                        /\ pre.item_info[pre.selected_index + 1].name /= nDotDot
                        /\ current_dir =
                               join(pre.current_dir,
                                    EntryName(pre.item_info[pre.selected_index + 1]))

====
